---- MODULE Spec2Model ----
(***************************************************************************)
(* Thread reconstruction and context consolidation of bluesky-times        *)
(* (src/bluesky_times/generator.py), modelled as the run of generate_pdf.  *)
(*                                                                         *)
(* A post is identified by its position in the batch (the Python dict      *)
(* object; two feed entries with the same uri are two objects).  The       *)
(* annotations the passes write into the dicts (reply_context,             *)
(* thread_continues, thread_replies, immediate_parent) are functions of    *)
(* that position.  A thread holds the positions of its member posts.       *)
(* The network the run talks to is the variable net and the answers of the *)
(* language model are the variable llm; neither changes during a run.      *)
(* The command line and the environment of the run are the variable        *)
(* config, the timeline the server delivers is the variable feed.          *)
(***************************************************************************)
EXTENDS Integers, Sequences, FiniteSets, TLC

VARIABLES pc, config, feed, posts, net, llm, use_themes, reply_context,
          thread_continues, thread_replies, immediate_parent, threads, themes,
          classifications, sections,
          limit, all_posts, cursor, responses

vars == <<pc, config, feed, posts, net, llm, use_themes, reply_context,
          thread_continues, thread_replies, immediate_parent, threads, themes,
          classifications, sections, limit, all_posts, cursor, responses>>

(***************************************************************************)
(* Bounds                                                                  *)
(***************************************************************************)
MaxPosts == 3
MaxReplies == 2
MaxThemed == 2
MaxTime == 2
MaxWalk == 5
MaxFeed == 2
MaxImages == 2
MaxLimit == 4
\* requests the model lets one fetch_timeline call make
MaxRequests == MaxLimit + 1

(***************************************************************************)
(* Values                                                                  *)
(***************************************************************************)
NoUri == "none"
NoTime == 0

UriName == <<"at://a", "at://b", "at://c", "at://d", "at://e">>
AnonName == <<"at://x1", "at://x2", "at://x3", "at://x4", "at://x5",
              "at://x6", "at://x7", "at://x8">>
ExtRoot == "at://R"
ExtParent == "at://P"

FAVORITE_ACCOUNTS ==
  {"theophite.bsky.social", "jbouie.bsky.social", "proptermalone.bsky.social",
   "samthielman.com", "dieworkwear.bsky.social", "reckless.bsky.social"}

Fav == "theophite.bsky.social"
Other == "someone.example"

\* self.user_handle, the account the digest is made for
UserHandle == "me.example"
\* post.author is None: reading post.author.handle raises AttributeError
NoAuthor == "no-author"

ImageUrl == <<"https://cdn/img1", "https://cdn/img2", "https://cdn/img3">>

Range(s) == {s[i] : i \in DOMAIN s}

\* list.sort(key=...): a stable sort; k maps each element of s to its key
RECURSIVE StableSort(_, _)
StableSort(s, k) ==
  IF s = <<>> THEN <<>>
  ELSE LET init == StableSort(SubSeq(s, 1, Len(s) - 1), k)
           x == s[Len(s)]
           pos == Cardinality({j \in 1..Len(init) : k[init[j]] <= k[x]})
       IN SubSeq(init, 1, pos) \o <<x>> \o SubSeq(init, pos + 1, Len(init))

\* [x for x in s if x in keep]
RECURSIVE SelectIn(_, _)
SelectIn(s, keep) ==
  IF s = <<>> THEN <<>>
  ELSE (IF Head(s) \in keep THEN <<Head(s)>> ELSE <<>>) \o SelectIn(Tail(s), keep)

\* a reply_context dict; type "none" is the absent key
NoContext == [type |-> "none", posts |-> <<>>, post_count |-> 0]
FullContext(ps) == [type |-> "full", posts |-> ps, post_count |-> 0]
SummaryContext(ps) == [type |-> "summary", posts |-> <<>>, post_count |-> Len(ps)]
ContinuedContext(ps) == [type |-> "continued", posts |-> ps, post_count |-> 0]

\* an entry of a context chain
Ancestor(u) == [uri |-> u, is_gap |-> FALSE, is_root |-> FALSE]
RootAncestor(u) == [uri |-> u, is_gap |-> FALSE, is_root |-> TRUE]
GapMarker == [uri |-> NoUri, is_gap |-> TRUE, is_root |-> FALSE]

IsFavorite(p) == p.author_handle \in FAVORITE_ACCOUNTS

(***************************************************************************)
(* main and validate_config                                                *)
(***************************************************************************)
\* the names validate_config reports as missing
MissingSecrets(cfg) ==
  (IF cfg.OPENROUTER_API_KEY THEN {} ELSE {"OPENROUTER_API_KEY"})
  \cup (IF cfg.BLUESKY_APP_PASSWORD THEN {} ELSE {"BLUESKY_APP_PASSWORD"})

\* Validates with "and" in the place of "or"
ValidatesFreshThemedOnly(cfg, ut) == ~cfg.cache /\ ut

\* if not args.cache or not args.no_themes: validate_config()
Validates(cfg, ut) == ~cfg.cache \/ ut

\* validate_config calls sys.exit(1)
ExitsEarly(cfg, ut) == Validates(cfg, ut) /\ MissingSecrets(cfg) # {}

(***************************************************************************)
(* extract_post_data                                                       *)
(***************************************************************************)
\* the attributes of the record view an embed quotes: a ViewRecord has a
\* value and an author with a handle, a ViewBlocked an author without a
\* handle, a ViewNotFound neither
HasValue(q) == q = "view_record"
HasAuthor(q) == q \in {"view_record", "view_blocked"}
HasHandle(q) == q = "view_record"

NoEmbed == [py_type |-> "none", images |-> <<>>, record |-> "none"]

\* data['images']: one entry per image of the embed, named by its fullsize url
extract_images(embed) ==
  IF embed.py_type \in {"images", "recordWithMedia"} THEN embed.images ELSE <<>>

\* extract_quote reading the author of every quoted record that has one
QuoteByAuthorOnly(embed) ==
  LET quoted == embed.record IN
  IF embed.py_type \notin {"record", "recordWithMedia"} \/ quoted = "none"
  THEN "absent"
  ELSE IF HasAuthor(quoted) THEN (IF HasHandle(quoted) THEN "present" ELSE "raises")
  ELSE IF HasValue(quoted) THEN "present" ELSE "absent"

\* data['quote_post']: "present", "absent" for None, "raises" when reading
\* quoted.author.handle raises AttributeError
extract_quote(embed) ==
  LET quoted == embed.record IN
  IF embed.py_type \notin {"record", "recordWithMedia"} \/ quoted = "none"
  THEN "absent"
  ELSE IF HasValue(quoted)
  THEN (IF HasAuthor(quoted) /\ ~HasHandle(quoted) THEN "raises" ELSE "present")
  ELSE IF HasAuthor(quoted) /\ HasHandle(quoted) THEN "present"
  ELSE "absent"

\* an entry raises when post.author is None or the quote cannot be read
ExtractRaises(fv) ==
  fv.author_handle = NoAuthor \/ extract_quote(fv.embed) = "raises"

extract_post_data(fv) ==
  [uri |-> fv.uri, author_handle |-> fv.author_handle,
   reply_root |-> fv.reply_root, reply_parent |-> fv.reply_parent,
   created_at |-> fv.created_at,
   quote_post |-> extract_quote(fv.embed), images |-> extract_images(fv.embed)]

\* posts = [p for p in posts if p['author_handle'] != self.user_handle]
RECURSIVE FilterOwnPosts(_)
FilterOwnPosts(ps) ==
  IF ps = <<>> THEN <<>>
  ELSE (IF Head(ps).author_handle # UserHandle THEN <<Head(ps)>> ELSE <<>>)
       \o FilterOwnPosts(Tail(ps))

\* ExtractedPosts handing on the first entry only
ExtractedFirstOnly(fd) ==
  FilterOwnPosts([i \in 1..(IF Len(fd) = 0 THEN 0 ELSE 1) |-> extract_post_data(fd[i])])

\* posts = [self.extract_post_data(f) for f in feed], then the filter
ExtractedPosts(fd) == FilterOwnPosts([i \in 1..Len(fd) |-> extract_post_data(fd[i])])

(***************************************************************************)
(* fetch_thread_context and fetch_single_post                              *)
(***************************************************************************)
\* FetchSinglePost with a server that answers for every uri
FetchAlwaysAnswers(nt, u) == TRUE

\* fetch_single_post: the post's data, or None when the fetch fails
FetchSinglePost(nt, u) == u \in nt.visible

\* thread.thread.parent, .parent.parent, ...: the uris of the resolved
\* ancestors as the answer links them, the immediate parent first
ParentChain(resp) == [k \in 1..Len(resp.walk) |-> resp.walk[Len(resp.walk) - k + 1]]

\* WalkUpChain with append in the place of insert(0, ...)
RECURSIVE WalkUpAppending(_, _)
WalkUpAppending(chain, parents) ==
  IF chain = <<>> THEN parents
  ELSE WalkUpAppending(Tail(chain), Append(parents, Ancestor(Head(chain))))

\* while parent: parents.insert(0, parent_data); parent = parent.parent
RECURSIVE WalkUpChain(_, _)
WalkUpChain(chain, parents) ==
  IF chain = <<>> THEN parents
  ELSE WalkUpChain(Tail(chain), <<Ancestor(Head(chain))>> \o parents)

\* resp is the server's answer for the post: ok = the call did not raise,
\* walk = the resolved ancestors oldest first, broken = the walk ended at a
\* NotFoundPost or BlockedPost
FetchThreadContext(nt, resp, reply_root) ==
  IF ~resp.ok THEN <<>>
  ELSE LET parents == WalkUpChain(ParentChain(resp), <<>>)
           have_root == \E k \in 1..Len(parents) : parents[k].uri = reply_root
       IN IF resp.broken /\ reply_root # NoUri /\ ~have_root
             /\ FetchSinglePost(nt, reply_root)
          THEN <<RootAncestor(reply_root)>>
               \o (IF parents # <<>> THEN <<GapMarker>> ELSE <<>>)
               \o parents
          ELSE parents

(***************************************************************************)
(* add_reply_context_for_favorites                                         *)
(***************************************************************************)
AllPostUris(ps) == {ps[i].uri : i \in 1..Len(ps)}

IsFavoriteReply(p) == IsFavorite(p) /\ p.reply_root # NoUri

\* replies_by_root[root]: the favorite replies to root, in batch order
ReplyGroup(ps, root) ==
  SelectIn([i \in 1..Len(ps) |-> i],
           {i \in 1..Len(ps) : IsFavoriteReply(ps[i]) /\ ps[i].reply_root = root})

\* the keys of replies_by_root in insertion order
RECURSIVE GroupRoots(_, _)
GroupRoots(ps, k) ==
  IF k > Len(ps) THEN <<>>
  ELSE IF IsFavoriteReply(ps[k])
          /\ \A j \in 1..(k - 1) :
               ~(IsFavoriteReply(ps[j]) /\ ps[j].reply_root = ps[k].reply_root)
       THEN <<ps[k].reply_root>> \o GroupRoots(ps, k + 1)
       ELSE GroupRoots(ps, k + 1)

\* parents = [p for p in parents if p.get('is_gap') or p.get('uri') not in all_post_uris]
RECURSIVE FilterParents(_, _)
FilterParents(parents, uris) ==
  IF parents = <<>> THEN <<>>
  ELSE (IF Head(parents).is_gap \/ Head(parents).uri \notin uris
        THEN <<Head(parents)>> ELSE <<>>)
       \o FilterParents(Tail(parents), uris)

\* MakeContext with the threshold off by one
MakeContextUpToFive(parents) ==
  IF Len(parents) <= 5 THEN FullContext(parents) ELSE SummaryContext(parents)

\* full list up to 4 entries, a summary beyond
MakeContext(parents) ==
  IF Len(parents) <= 4 THEN FullContext(parents) ELSE SummaryContext(parents)

\* LastTwo without the slice
WholeChain(s) == s

\* immediate_parents[-2:] if len(immediate_parents) > 2 else immediate_parents
LastTwo(s) == IF Len(s) > 2 THEN SubSeq(s, Len(s) - 1, Len(s)) ELSE s

\* sort(key=lambda x: x[1].get('created_at', '')): the key of a post whose
\* created_at is None is None, and comparing None raises TypeError
SortRaises(ps, group) ==
  Len(group) >= 2 /\ \E k \in 1..Len(group) : ps[group[k]].created_at = NoTime

CreatedAtKey(ps) == [i \in 1..Len(ps) |-> ps[i].created_at]

\* the 2nd and later replies of a sorted group
RECURSIVE ContinueReplies(_, _, _, _, _, _)
ContinueReplies(ps, nt, root, sorted, j, rc) ==
  IF j > Len(sorted) THEN rc
  ELSE LET idx == sorted[j]
           immediate_parents == FetchThreadContext(nt, nt.ctx[idx], root)
           rc2 == IF immediate_parents # <<>>
                  THEN [rc EXCEPT ![idx] = ContinuedContext(LastTwo(immediate_parents))]
                  ELSE rc
       IN ContinueReplies(ps, nt, root, sorted, j + 1, rc2)

\* the loop over replies_by_root.items(); st = [rc, tc, raised]
RECURSIVE FavoriteGroups(_, _, _, _)
FavoriteGroups(ps, nt, roots, st) ==
  IF roots = <<>> \/ st.raised THEN st
  ELSE LET root == Head(roots)
           reply_group == ReplyGroup(ps, root)
           first_post == reply_group[1]
           parents == FilterParents(FetchThreadContext(nt, nt.ctx[first_post], root),
                                    AllPostUris(ps))
       IN IF parents = <<>> THEN FavoriteGroups(ps, nt, Tail(roots), st)
          ELSE IF Len(reply_group) = 1
          THEN FavoriteGroups(ps, nt, Tail(roots),
                 [st EXCEPT !.rc[first_post] = MakeContext(parents)])
          ELSE IF SortRaises(ps, reply_group)
          THEN [st EXCEPT !.raised = TRUE]
          ELSE LET sorted == StableSort(reply_group, CreatedAtKey(ps))
                   rc1 == [st.rc EXCEPT ![sorted[1]] = MakeContext(parents)]
                   tc1 == [st.tc EXCEPT ![sorted[1]] = Len(reply_group) - 1]
               IN FavoriteGroups(ps, nt, Tail(roots),
                    [rc |-> ContinueReplies(ps, nt, root, sorted, 2, rc1),
                     tc |-> tc1, raised |-> FALSE])

AddReplyContextResult ==
  FavoriteGroups(posts, net, GroupRoots(posts, 1),
                 [rc |-> reply_context, tc |-> thread_continues, raised |-> FALSE])

(***************************************************************************)
(* organize_threads                                                        *)
(***************************************************************************)
\* posts_by_uri = {p['uri']: p for p in posts}: the last entry with the uri
PostsByUri(ps, u) ==
  CHOOSE i \in 1..Len(ps) :
    ps[i].uri = u /\ \A j \in (i + 1)..Len(ps) : ps[j].uri # u

\* CollectReplies without the test of seen_uris
RECURSIVE CollectEveryReply(_, _, _, _)
CollectEveryReply(ps, j, root_uri, st) ==
  IF j > Len(ps) THEN st
  ELSE IF ps[j].reply_root = root_uri
       THEN CollectEveryReply(ps, j + 1, root_uri,
              [thread |-> Append(st.thread, j), seen |-> st.seen \cup {ps[j].uri}])
       ELSE CollectEveryReply(ps, j + 1, root_uri, st)

\* the inner loop collecting the replies to root_uri; st = [thread, seen]
RECURSIVE CollectReplies(_, _, _, _)
CollectReplies(ps, j, root_uri, st) ==
  IF j > Len(ps) THEN st
  ELSE IF ps[j].reply_root = root_uri /\ ps[j].uri \notin st.seen
       THEN CollectReplies(ps, j + 1, root_uri,
              [thread |-> Append(st.thread, j), seen |-> st.seen \cup {ps[j].uri}])
       ELSE CollectReplies(ps, j + 1, root_uri, st)

\* the outer loop; st = [threads, seen]
RECURSIVE OrganizeFrom(_, _, _)
OrganizeFrom(ps, k, st) ==
  IF k > Len(ps) THEN st.threads
  ELSE LET post == ps[k] IN
    IF post.uri \in st.seen THEN OrganizeFrom(ps, k + 1, st)
    ELSE IF post.reply_root # NoUri /\ post.reply_root \in AllPostUris(ps)
    THEN LET root_uri == post.reply_root IN
         IF root_uri \in st.seen THEN OrganizeFrom(ps, k + 1, st)
         ELSE LET c == CollectReplies(ps, 1, root_uri,
                         [thread |-> <<PostsByUri(ps, root_uri)>>,
                          seen |-> st.seen \cup {root_uri}])
                  thread == StableSort(c.thread, CreatedAtKey(ps))
              IN OrganizeFrom(ps, k + 1,
                   [threads |-> Append(st.threads, [type |-> "thread", posts |-> thread]),
                    seen |-> c.seen])
    ELSE OrganizeFrom(ps, k + 1,
           [threads |-> Append(st.threads, [type |-> "single", posts |-> <<k>>]),
            seen |-> st.seen \cup {post.uri}])

organize_threads(ps) == OrganizeFrom(ps, 1, [threads |-> <<>>, seen |-> {}])

(***************************************************************************)
(* add_thread_context_for_favorites                                        *)
(***************************************************************************)
ThreadUris(ps, thread) == {ps[thread.posts[k]].uri : k \in 1..Len(thread.posts)}

\* external_replies: the favorite members replying to a post outside the thread
ExternalReplies(ps, thread) ==
  SelectIn(thread.posts,
           {i \in Range(thread.posts) :
              /\ IsFavorite(ps[i])
              /\ ps[i].reply_parent # NoUri
              /\ ps[i].reply_parent \notin ThreadUris(ps, thread)})

\* while parent and hasattr(parent, 'post') and len(context_posts) < 4
RECURSIVE WalkUpParents(_, _, _)
WalkUpParents(context_posts, d, height) ==
  IF d > height \/ Len(context_posts) >= 4 THEN context_posts
  ELSE WalkUpParents(<<Ancestor(AnonName[d])>> \o context_posts, d + 1, height)

\* get_post_thread(uri=parent_uri, parent_height=5): the parent and the
\* ancestors above it; nothing when the parent cannot be fetched
ParentContextPosts(nt, parent_uri) ==
  IF parent_uri \notin nt.visible THEN <<>>
  ELSE WalkUpParents(<<Ancestor(parent_uri)>>, 1, nt.height)

ThreadContext(external_replies, context_posts) ==
  IF Len(external_replies) > 3 THEN SummaryContext(context_posts)
  ELSE FullContext(context_posts)

RECURSIVE AddThreadContextFrom(_, _, _, _, _)
AddThreadContextFrom(ths, t, ps, nt, rc) ==
  IF t > Len(ths) THEN rc
  ELSE LET thread == ths[t]
           external_replies == ExternalReplies(ps, thread)
       IN IF thread.type # "thread" \/ Len(thread.posts) <= 1
             \/ ~(\E i \in Range(thread.posts) : IsFavorite(ps[i]))
             \/ external_replies = <<>>
          THEN AddThreadContextFrom(ths, t + 1, ps, nt, rc)
          ELSE LET first_post == external_replies[1]
                   context_posts == ParentContextPosts(nt, ps[first_post].reply_parent)
               IN AddThreadContextFrom(ths, t + 1, ps, nt,
                    IF context_posts # <<>>
                    THEN [rc EXCEPT ![first_post] =
                            ThreadContext(external_replies, context_posts)]
                    ELSE rc)

(***************************************************************************)
(* add_basic_reply_context                                                 *)
(***************************************************************************)
ThreadMembers(ths) == UNION {Range(ths[t].posts) : t \in 1..Len(ths)}

\* NeedsBasicContext with the test of reply_parent inverted
SkipsReplies(p, ctx) == ~(ctx.type # "none" \/ p.reply_parent # NoUri)

NeedsBasicContext(p, ctx) == ~(ctx.type # "none" \/ p.reply_parent = NoUri)

\* BasicReplyContext looping over the posts of the batch, not over the threads
BasicContextOfBatch(ths, ps, nt, rc) ==
  [i \in DOMAIN rc |->
     IF NeedsBasicContext(ps[i], rc[i]) /\ FetchSinglePost(nt, ps[i].reply_parent)
     THEN FullContext(<<Ancestor(ps[i].reply_parent)>>)
     ELSE rc[i]]

BasicReplyContext(ths, ps, nt, rc) ==
  [i \in DOMAIN rc |->
     IF /\ i \in ThreadMembers(ths)
        /\ NeedsBasicContext(ps[i], rc[i])
        /\ FetchSinglePost(nt, ps[i].reply_parent)
     THEN FullContext(<<Ancestor(ps[i].reply_parent)>>)
     ELSE rc[i]]

(***************************************************************************)
(* consolidate_thread_participations                                       *)
(***************************************************************************)
\* the (thread_idx, post) pairs of the favorite replies, thread by thread
RECURSIVE ParticipationsFrom(_, _, _)
ParticipationsFrom(ths, t, ps) ==
  IF t > Len(ths) THEN <<>>
  ELSE LET favs == SelectIn(ths[t].posts,
                            {i \in Range(ths[t].posts) : IsFavoriteReply(ps[i])})
       IN [k \in 1..Len(favs) |-> <<t, favs[k]>>] \o ParticipationsFrom(ths, t + 1, ps)

\* the keys of roots_to_threads in insertion order
RECURSIVE ParticipationRoots(_, _, _)
ParticipationRoots(es, k, ps) ==
  IF k > Len(es) THEN <<>>
  ELSE IF \A j \in 1..(k - 1) : ps[es[j][2]].reply_root # ps[es[k][2]].reply_root
       THEN <<ps[es[k][2]].reply_root>> \o ParticipationRoots(es, k + 1, ps)
       ELSE ParticipationRoots(es, k + 1, ps)

\* roots_to_threads[root]
ThreadPosts(es, root, ps) ==
  SelectIn(es, {e \in Range(es) : ps[e[2]].reply_root = root})

\* thread_posts.sort(key=lambda x: x[1].get('created_at', ''))
ParticipationSortRaises(thread_posts, ps) ==
  Len(thread_posts) > 1
  /\ \E k \in 1..Len(thread_posts) : ps[thread_posts[k][2]].created_at = NoTime

\* AdditionalPosts stopping after the next reply
NextPostOnly(sorted) ==
  SelectIn(SubSeq(sorted, 2, 2), {e \in Range(sorted) : e[1] # sorted[1][1]})

\* for idx, post in thread_posts[1:]: if idx != first_idx
AdditionalPosts(sorted) ==
  SelectIn(Tail(sorted), {e \in Range(sorted) : e[1] # sorted[1][1]})

\* the loop over roots_to_threads.items(); st = [remove, cons] with
\* cons a sequence of <<thread_idx to keep, additional posts>>
RECURSIVE ConsolidationPlan(_, _, _, _)
ConsolidationPlan(es, roots, ps, st) ==
  IF roots = <<>> THEN st
  ELSE LET thread_posts == ThreadPosts(es, Head(roots), ps) IN
       IF Len(thread_posts) <= 1 THEN ConsolidationPlan(es, Tail(roots), ps, st)
       ELSE LET sorted == StableSort(thread_posts,
                            [e \in Range(thread_posts) |-> ps[e[2]].created_at])
                first_idx == sorted[1][1]
                additional == AdditionalPosts(sorted)
                additional_posts == [k \in 1..Len(additional) |-> additional[k][2]]
                known == \E k \in 1..Len(st.cons) : st.cons[k][1] = first_idx
            IN ConsolidationPlan(es, Tail(roots), ps,
                 [remove |-> st.remove \cup {additional[k][1] : k \in 1..Len(additional)},
                  cons |-> IF additional_posts = <<>> THEN st.cons
                           ELSE IF known
                           THEN [k \in 1..Len(st.cons) |->
                                   IF st.cons[k][1] = first_idx
                                   THEN <<first_idx, st.cons[k][2] \o additional_posts>>
                                   ELSE st.cons[k]]
                           ELSE Append(st.cons, <<first_idx, additional_posts>>)])

\* the member that receives thread_replies: the first favorite reply of the thread
ReplyHolder(thread, ps) ==
  thread.posts[CHOOSE k \in 1..Len(thread.posts) :
                 /\ IsFavoriteReply(ps[thread.posts[k]])
                 /\ \A j \in 1..(k - 1) : ~IsFavoriteReply(ps[thread.posts[j]])]

\* KeepThreads with the indices of threads_to_remove taken one too low
KeepThreadsOffByOne(ths, remove) ==
  LET kept == SelectIn([t \in 1..Len(ths) |-> t],
                       (1..Len(ths)) \ {t - 1 : t \in remove})
  IN [k \in 1..Len(kept) |-> ths[kept[k]]]

\* new_threads = [t for i, t in enumerate(threads) if i not in threads_to_remove]
KeepThreads(ths, remove) ==
  LET kept == SelectIn([t \in 1..Len(ths) |-> t], (1..Len(ths)) \ remove)
  IN [k \in 1..Len(kept) |-> ths[kept[k]]]

consolidate_thread_participations(ths, ps, nt, tr, ip) ==
  LET all_uris == {ps[i].uri : i \in ThreadMembers(ths)}
      es == ParticipationsFrom(ths, 1, ps)
      roots == ParticipationRoots(es, 1, ps)
  IN IF \E k \in 1..Len(roots) : ParticipationSortRaises(ThreadPosts(es, roots[k], ps), ps)
     THEN [threads |-> ths, thread_replies |-> tr, immediate_parent |-> ip,
           raised |-> TRUE]
     ELSE LET plan == ConsolidationPlan(es, roots, ps, [remove |-> {}, cons |-> <<>>])
              replies == UNION {Range(plan.cons[k][2]) : k \in 1..Len(plan.cons)}
          IN [threads |-> KeepThreads(ths, plan.remove),
              thread_replies |->
                [i \in DOMAIN tr |->
                   IF \E k \in 1..Len(plan.cons) :
                        i = ReplyHolder(ths[plan.cons[k][1]], ps)
                   THEN plan.cons[CHOOSE k \in 1..Len(plan.cons) :
                                    i = ReplyHolder(ths[plan.cons[k][1]], ps)][2]
                   ELSE tr[i]],
              immediate_parent |->
                [i \in DOMAIN ip |->
                   IF /\ i \in replies
                      /\ ps[i].reply_parent # NoUri
                      /\ ps[i].reply_parent \notin all_uris
                      /\ FetchSinglePost(nt, ps[i].reply_parent)
                   THEN ps[i].reply_parent
                   ELSE ip[i]],
              raised |-> FALSE]

(***************************************************************************)
(* identify_themes, classify_posts, organize_by_theme                      *)
(***************************************************************************)
\* the theme list parsed from the model's answer, or the default list
identify_themes(lm) == IF lm.themes_ok THEN lm.themes ELSE <<"misc">>

\* a dict as the sequence of its <<key, value>> items in insertion order
DictKeys(d) == {d[k][1] : k \in 1..Len(d)}

DictSet(d, key, val) ==
  IF key \in DictKeys(d)
  THEN [k \in 1..Len(d) |-> IF d[k][1] = key THEN <<key, val>> ELSE d[k]]
  ELSE Append(d, <<key, val>>)

\* classified[int(idx_str)] = theme_id if theme_id in theme_ids else "misc"
RECURSIVE ClassifyChunk(_, _, _)
ClassifyChunk(items, theme_ids, classified) ==
  IF items = <<>> THEN classified
  ELSE ClassifyChunk(Tail(items), theme_ids,
         DictSet(classified, Head(items)[1],
                 IF Head(items)[2] \in theme_ids THEN Head(items)[2] ELSE "misc"))

\* if theme_id != "misc" and theme_id in theme_ids: classified[idx] = theme_id
RECURSIVE Reclassify(_, _, _)
Reclassify(items, theme_ids, classified) ==
  IF items = <<>> THEN classified
  ELSE Reclassify(Tail(items), theme_ids,
         IF Head(items)[2] # "misc" /\ Head(items)[2] \in theme_ids
         THEN DictSet(classified, Head(items)[1], Head(items)[2])
         ELSE classified)

\* classify_posts without the default of the except branch
ClassifyWithoutDefault(ths, thms, lm) ==
  IF lm.classify_ok /\ Len(ths) > 0 THEN ClassifyChunk(lm.labels, Range(thms), <<>>) ELSE <<>>

\* thread indices are counted from 0 as in the source
classify_posts(ths, thms, lm) ==
  LET theme_ids == Range(thms)
      first == IF Len(ths) = 0 THEN <<>>
               ELSE IF lm.classify_ok THEN ClassifyChunk(lm.labels, theme_ids, <<>>)
               ELSE [k \in 1..Len(ths) |-> <<k - 1, "misc">>]
      misc_indices == {first[k][1] : k \in {j \in 1..Len(first) : first[j][2] = "misc"}}
      themed == {first[k][1] : k \in {j \in 1..Len(first) :
                                        first[j][2] # "misc" /\ first[j][1] < Len(ths)}}
      misc_for_review == {i \in misc_indices : i < Len(ths)}
  IN IF misc_indices # {} /\ themed # {} /\ misc_for_review # {} /\ lm.recheck_ok
     THEN Reclassify(lm.recheck, theme_ids, first)
     ELSE first

\* is_favorite = any(post['author_handle'] in FAVORITE_ACCOUNTS for post in thread['posts'])
HasFavorite(ps, thread) == \E i \in Range(thread.posts) : IsFavorite(ps[i])

Min(S) == CHOOSE x \in S : \A y \in S : x <= y

\* get_thread_time: the earliest present created_at, '' when there is none
get_thread_time(ps, thread) ==
  LET times == {ps[i].created_at : i \in Range(thread.posts)} \ {NoTime}
  IN IF times = {} THEN NoTime ELSE Min(times)

\* [i for i, t_id in classifications.items() if t_id == id and i < len(threads)]
RECURSIVE ThemeIndices(_, _, _)
ThemeIndices(cls, id, n) ==
  IF cls = <<>> THEN <<>>
  ELSE (IF Head(cls)[2] = id /\ Head(cls)[1] < n THEN <<Head(cls)[1]>> ELSE <<>>)
       \o ThemeIndices(Tail(cls), id, n)

\* SortedThreads without the sort
PickedThreads(ps, ths, indices, fav) ==
  LET pick == SelectIn(indices, {i \in Range(indices) : HasFavorite(ps, ths[i + 1]) = fav})
  IN [k \in 1..Len(pick) |-> ths[pick[k] + 1]]

\* the threads of the given indices that do (fav) or do not hold a favorite,
\* sorted by get_thread_time
SortedThreads(ps, ths, indices, fav) ==
  LET pick == SelectIn(indices, {i \in Range(indices) : HasFavorite(ps, ths[i + 1]) = fav})
      sorted == StableSort([k \in 1..Len(pick) |-> <<k, pick[k]>>],
                           [e \in {<<k, pick[k]>> : k \in 1..Len(pick)} |->
                              get_thread_time(ps, ths[e[2] + 1])])
  IN [k \in 1..Len(sorted) |-> ths[sorted[k][2] + 1]]

ThemeSection(ps, ths, id, theme_indices) ==
  LET favorite_threads == SortedThreads(ps, ths, theme_indices, TRUE)
      other_threads == SortedThreads(ps, ths, theme_indices, FALSE)
  IN [title |-> id, threads |-> favorite_threads \o other_threads,
      favorite_count |-> Len(favorite_threads), is_voices_section |-> FALSE]

\* ThemeSections without the skip of a theme that has no thread
RECURSIVE EveryThemeSection(_, _, _, _)
EveryThemeSection(ps, ths, thms, cls) ==
  IF thms = <<>> THEN <<>>
  ELSE <<ThemeSection(ps, ths, Head(thms), ThemeIndices(cls, Head(thms), Len(ths)))>>
       \o EveryThemeSection(ps, ths, Tail(thms), cls)

RECURSIVE ThemeSections(_, _, _, _)
ThemeSections(ps, ths, thms, cls) ==
  IF thms = <<>> THEN <<>>
  ELSE LET theme_indices == ThemeIndices(cls, Head(thms), Len(ths))
       IN (IF theme_indices = <<>> THEN <<>>
           ELSE <<ThemeSection(ps, ths, Head(thms), theme_indices)>>)
          \o ThemeSections(ps, ths, Tail(thms), cls)

VoicesSection(favorite_misc_threads) ==
  IF favorite_misc_threads # <<>>
  THEN <<[title |-> "From Voices I Follow", threads |-> favorite_misc_threads,
          favorite_count |-> Len(favorite_misc_threads), is_voices_section |-> TRUE]>>
  ELSE <<>>

AlsoTodaySection(other_misc_threads) ==
  IF other_misc_threads # <<>>
  THEN <<[title |-> "Also Today", threads |-> other_misc_threads,
          favorite_count |-> 0, is_voices_section |-> FALSE]>>
  ELSE <<>>

organize_by_theme(ps, ths, thms, cls) ==
  LET misc_indices == ThemeIndices(cls, "misc", Len(ths))
  IN ThemeSections(ps, ths, thms, cls)
     \o VoicesSection(SortedThreads(ps, ths, misc_indices, TRUE))
     \o AlsoTodaySection(SortedThreads(ps, ths, misc_indices, FALSE))

(***************************************************************************)
(* Inputs                                                                  *)
(***************************************************************************)
Post(u, a, root, parent, t) ==
  [uri |-> u, author_handle |-> a, reply_root |-> root, reply_parent |-> parent,
   created_at |-> t]

BatchUris(n) == {UriName[k] : k \in 1..n}

\* record.reply gives both the root and the parent, or neither
Replies(roots, parents) ==
  {<<NoUri, NoUri>>}
  \cup {<<r, r>> : r \in roots \ {NoUri}}
  \cup {<<r, p>> : r \in roots \ {NoUri}, p \in parents}

\* batches of n posts with distinct uris
Batches(n, authors, replies, times) ==
  {[i \in 1..n |-> Post(UriName[i], f[i][1], f[i][2][1], f[i][2][2], f[i][3])] :
     f \in [1..n -> authors \X replies \X times]}

\* the walk the server resolves for a reply: the declared root on top when
\* top holds, k further ancestors outside the batch, and last the batch post
\* bottom when there is one
Walk(top, k, bottom) ==
  (IF top # NoUri THEN <<top>> ELSE <<>>)
  \o [j \in 1..k |-> AnonName[k - j + 1]]
  \o (IF bottom # NoUri THEN <<bottom>> ELSE <<>>)

WalkShapes ==
  {[ok |-> FALSE, top |-> FALSE, k |-> 0, bottom |-> FALSE, broken |-> FALSE]}
  \cup {[ok |-> TRUE, top |-> tb[1], k |-> k, bottom |-> b, broken |-> tb[2]] :
          tb \in {<<TRUE, FALSE>>, <<FALSE, FALSE>>, <<FALSE, TRUE>>},
          k \in 0..MaxWalk, b \in BOOLEAN}

\* the last post of the batch is the batch post an ancestor walk can meet
Net(ps, shape, visible) ==
  [ctx |-> [i \in 1..Len(ps) |->
              [ok |-> shape.ok,
               walk |-> Walk(IF shape.top THEN ps[i].reply_root ELSE NoUri,
                             shape.k,
                             IF shape.bottom /\ i # Len(ps) THEN ps[Len(ps)].uri ELSE NoUri),
               broken |-> shape.broken]],
   visible |-> visible,
   height |-> shape.k]

\* get_post_thread raises for the posts of down
Unreachable(nt, down) ==
  [nt EXCEPT !.ctx = [i \in DOMAIN nt.ctx |->
                        IF i \in down THEN [nt.ctx[i] EXCEPT !.ok = FALSE]
                        ELSE nt.ctx[i]]]

\* the server resolves nothing
SilentNet(ps) ==
  Net(ps, [ok |-> FALSE, top |-> FALSE, k |-> 0, bottom |-> FALSE, broken |-> FALSE], {})

\* the server resolves every post, and every reply's walk is its root alone
PlainNet(ps) ==
  Net(ps, [ok |-> TRUE, top |-> TRUE, k |-> 0, bottom |-> FALSE, broken |-> FALSE],
      AllPostUris(ps) \cup {ExtRoot, ExtParent})

Llm(themes_ok, thms, classify_ok, labels, recheck_ok, recheck) ==
  [themes_ok |-> themes_ok, themes |-> thms, classify_ok |-> classify_ok,
   labels |-> labels, recheck_ok |-> recheck_ok, recheck |-> recheck]

\* no answer of the model can be parsed
SilentLlm == Llm(FALSE, <<>>, FALSE, <<>>, FALSE, <<>>)

\* the feed view the server delivers for a post
FeedView(p, embed) ==
  [uri |-> p.uri, author_handle |-> p.author_handle, reply_root |-> p.reply_root,
   reply_parent |-> p.reply_parent, created_at |-> p.created_at, embed |-> embed]

\* a timeline of posts without embeds
PlainFeed(b) == [i \in 1..Len(b) |-> FeedView(b[i], NoEmbed)]

\* a fresh run with both secrets set, a run from cache.json
FreshConfig == [cache |-> FALSE, OPENROUTER_API_KEY |-> TRUE, BLUESKY_APP_PASSWORD |-> TRUE]
CacheConfig == [cache |-> TRUE, OPENROUTER_API_KEY |-> TRUE, BLUESKY_APP_PASSWORD |-> TRUE]

Configs ==
  [cache : BOOLEAN, OPENROUTER_API_KEY : BOOLEAN, BLUESKY_APP_PASSWORD : BOOLEAN]

InputWith(fd, nt, lm, ut, cfg) ==
  [feed |-> fd, net |-> nt, llm |-> lm, use_themes |-> ut, config |-> cfg]

Input(b, nt, lm, ut) == InputWith(PlainFeed(b), nt, lm, ut, FreshConfig)

OneTheme == Llm(TRUE, <<"theme-1">>, TRUE, <<<<0, "theme-1">>>>, FALSE, <<>>)

\* runs with theme classification on single-post batches
ThemedRuns ==
  {Input(b, PlainNet(b), OneTheme, TRUE) :
     b \in Batches(1, {Fav, Other}, Replies({ExtRoot}, {}), {1})}

\* runs from cache.json; without a client no fetch succeeds
CachedRuns ==
  {InputWith(PlainFeed(b), SilentNet(b), SilentLlm, FALSE, CacheConfig) :
     b \in Batches(1, {Fav, Other}, Replies({ExtRoot}, {}), {1})}

\* every command line and environment
CliRuns ==
  {InputWith(PlainFeed(b), IF cfg.cache THEN SilentNet(b) ELSE PlainNet(b),
             OneTheme, ut, cfg) :
     b \in Batches(1, {Fav, Other}, Replies({ExtRoot}, {}), {1}),
     ut \in BOOLEAN, cfg \in Configs}

\* the image lists of an embed
ImageLists ==
  UNION {[1..k -> {ImageUrl[1], ImageUrl[2]}] : k \in 0..MaxImages}

Embeds ==
  {NoEmbed, [py_type |-> "external", images |-> <<>>, record |-> "none"]}
  \cup {[py_type |-> "images", images |-> im, record |-> "none"] : im \in ImageLists}
  \cup {[py_type |-> "record", images |-> <<>>, record |-> q] :
          q \in {"view_record", "view_blocked", "view_not_found"}}
  \cup {[py_type |-> "recordWithMedia", images |-> im, record |-> q] :
          im \in ImageLists, q \in {"view_record", "view_blocked", "view_not_found"}}

\* timelines of n standalone entries, one of them with an embed, by the
\* user, by others and with an entry that has no author
ExtractFeeds(n) ==
  {[i \in 1..n |-> FeedView(Post(UriName[i], a[i], NoUri, NoUri, 1),
                            IF i = ke[1] THEN ke[2] ELSE NoEmbed)] :
     a \in [1..n -> {Fav, UserHandle, NoAuthor}], ke \in (1..n) \X Embeds}

\* created_at is only ever compared: the timestamps a batch uses are the
\* first ones, so that batches differing by a renaming of timestamps are
\* taken once
RankedTimes(b) ==
  \A t \in 2..MaxTime :
    (\E i \in 1..Len(b) : b[i].created_at = t)
      => (\E j \in 1..Len(b) : b[j].created_at = t - 1)

\* no post names itself as its reply root
NoSelfRoot(b) == \A i \in 1..Len(b) : b[i].reply_root # b[i].uri

\* batches of any order and any reply roots by authors that are not prioritized
AssembleBatches(n) ==
  {c \in Batches(n, {Other}, Replies(BatchUris(n), {}), 0..MaxTime) :
     NoSelfRoot(c) /\ RankedTimes(c)}

\* batches with prioritized authors replying into the first and the last post
\* of the batch and outside the batch
ConsolidateBatches(n) ==
  {c \in Batches(n, {Fav, Other}, Replies({ExtRoot, UriName[1], UriName[n]}, {}),
                 1..MaxTime) :
     NoSelfRoot(c) /\ RankedTimes(c)}

\* prioritized replies, into the last post of the batch or outside the batch
HydrateBatches(n) ==
  {c \in Batches(n, {Fav}, Replies({ExtRoot, UriName[n]}, {ExtParent}), 0..MaxTime) :
     /\ NoSelfRoot(c)
     /\ RankedTimes(c)
     /\ \A i \in 1..(n - 1) : c[i].reply_root # NoUri}

\* the labels the model can give to threads 0..n-1
Labelings(n, labels) ==
  {SelectIn([k \in 1..n |-> <<k - 1, f[k]>>],
            {<<k - 1, f[k]>> : k \in {j \in 1..n : f[j] # "absent"}}) :
     f \in [1..n -> labels]}

LlmAnswers(n) ==
  {Llm(FALSE, <<>>, TRUE, l, FALSE, <<>>) : l \in Labelings(n, {"misc", "absent"})}
  \cup {Llm(TRUE, <<"theme-1">>, TRUE, l, FALSE, <<>>) :
          l \in Labelings(n, {"theme-1", "misc", "absent"})}
  \cup {Llm(TRUE, <<"theme-1", "theme-2">>, TRUE, l, FALSE, <<>>) :
          l \in Labelings(n, {"theme-1", "theme-2", "misc"})}
  \cup {Llm(TRUE, <<"theme-1">>, FALSE, <<>>, FALSE, <<>>)}
  \cup {Llm(TRUE, <<"theme-1", "theme-2">>, TRUE,
            [k \in 1..n |-> <<k - 1, IF k = 1 THEN "theme-1" ELSE "misc">>],
            TRUE, <<<<n - 1, "theme-2">>>>)}

\* standalone posts, and the first post replying to the last one
ThemeBatches(n) ==
  {c \in Batches(n, {Fav, Other}, Replies({UriName[n]}, {}), 0..MaxTime) :
     NoSelfRoot(c) /\ \A i \in 2..n : c[i].reply_root = NoUri}

\* a reply names the top post of its thread as root, and the top post of a
\* thread is no reply
TopRoots(b) ==
  \A i, j \in 1..Len(b) : b[j].reply_root = b[i].uri => b[i].reply_root = NoUri

\* replies by any author into the first or the last post of the batch or
\* outside the batch, to the root or to a post outside the batch
PassBatches(n) ==
  {c \in Batches(n, {Fav, Other}, Replies({ExtRoot, UriName[1], UriName[n]}, {ExtParent}),
                 {1}) :
     NoSelfRoot(c) /\ TopRoots(c)}

\* the server fails, or resolves the root and one ancestor below it
PassShapes ==
  {[ok |-> FALSE, top |-> FALSE, k |-> 0, bottom |-> FALSE, broken |-> FALSE],
   [ok |-> TRUE, top |-> TRUE, k |-> 1, bottom |-> FALSE, broken |-> FALSE]}

\* the posts of which the timeline delivers copies
RepostBatches(n) ==
  {c \in Batches(n, {Other}, Replies(BatchUris(n), {}), {1}) : NoSelfRoot(c)}

\* a timeline in which a post can come several times (the post and reposts
\* of it): entry i is a copy of post f[i] of c
Reposted(c, f) == [i \in 1..Len(c) |-> c[f[i]]]

\* prioritized replies into the first or the last post of the batch or
\* outside the batch
ContinueBatches(n) ==
  {c \in Batches(n, {Fav}, Replies({ExtRoot, UriName[1], UriName[n]}, {}), 1..MaxTime) :
     NoSelfRoot(c) /\ RankedTimes(c)}

\* cursor = None
NoCursor == "None"

\* a cursor of the empty string is as false as None
EmptyCursor == ""

\* the opaque cursor of a page that has a next page
NextCursor == "next"

\* min(100, ...): the largest page fetch_timeline asks for (100 in the
\* source, scaled to the limits of the model)
MaxBatchSize == 2

\* batch_size = min(100, limit - len(all_posts))
BatchSize(lim, fetched) ==
  IF lim - Len(fetched) < MaxBatchSize THEN lim - Len(fetched) ELSE MaxBatchSize

\* a page the server delivers as request number r: n entries and a cursor
TimelinePage(r, batch_size, n, c) ==
  [requested |-> batch_size,
   feed |-> [k \in 1..n |-> <<r, k>>],
   cursor |-> c]

\* the pages the server can deliver to request r: empty, short, full or longer
\* than asked, with a cursor, with an empty cursor or without one
TimelinePages(r, batch_size) ==
  {TimelinePage(r, batch_size, n, c) :
     n \in 0..(MaxBatchSize + 1), c \in {NoCursor, EmptyCursor, NextCursor}}

\* if not timeline.cursor or len(timeline.feed) < batch_size: break
StopsOnlyWithoutCursor(timeline, batch_size) ==
  timeline.cursor \in {NoCursor, EmptyCursor}

StopsPaging(timeline, batch_size) ==
  \/ timeline.cursor \in {NoCursor, EmptyCursor}
  \/ Len(timeline.feed) < batch_size

\* all_posts[:limit]
SliceTo(s, lim) == SubSeq(s, 1, IF lim < Len(s) THEN lim ELSE Len(s))

InitWith(in) ==
  /\ config = in.config
  /\ feed = in.feed
  /\ net = in.net
  /\ llm = in.llm
  /\ use_themes = in.use_themes
  /\ pc = "main"
  /\ limit = 0
  /\ all_posts = <<>>
  /\ cursor = NoCursor
  /\ responses = <<>>
  /\ posts = <<>>
  /\ reply_context = <<>>
  /\ thread_continues = <<>>
  /\ thread_replies = <<>>
  /\ immediate_parent = <<>>
  /\ threads = <<>>
  /\ themes = <<>>
  /\ classifications = <<>>
  /\ sections = <<>>

InitThemed == \E in \in ThemedRuns \cup CachedRuns : InitWith(in)

\* the server resolves nothing, or every post and every root
Init ==
  \/ \E n \in 1..MaxPosts : \E b \in ConsolidateBatches(n) :
       \E nt \in {SilentNet(b), PlainNet(b)} : InitWith(Input(b, nt, SilentLlm, FALSE))
  \/ InitThemed

InitAssemble ==
  \/ \E n \in 1..MaxPosts : \E b \in AssembleBatches(n) :
       InitWith(Input(b, SilentNet(b), SilentLlm, FALSE))
  \/ InitThemed

\* every answer of the server, also with the first post's fetch failing
InitHydrate ==
  \/ \E n \in 1..MaxReplies : \E b \in HydrateBatches(n) :
       \E sh \in WalkShapes :
         \E vis \in {{}, AllPostUris(b) \cup {ExtRoot, ExtParent}} :
           \E down \in {{}, {1}} :
             InitWith(Input(b, Unreachable(Net(b, sh, vis), down), SilentLlm, FALSE))
  \/ InitThemed

\* every answer of the model
InitThemes ==
  \/ \E n \in 1..MaxThemed : \E b \in ThemeBatches(n) :
    \E lm \in LlmAnswers(Len(b)) : InitWith(Input(b, SilentNet(b), lm, TRUE))
  \/ InitThemed

\* every embed, own posts and entries without an author
InitExtract ==
  \/ \E n \in 1..MaxFeed : \E fd \in ExtractFeeds(n) :
       InitWith(InputWith(fd, SilentNet(ExtractedPosts(fd)), SilentLlm, FALSE,
                          FreshConfig))
  \/ InitThemed

InitCli == \E in \in CliRuns : InitWith(in)

\* timelines with reposts
InitReposts ==
  \/ \E n \in 1..MaxPosts : \E c \in RepostBatches(n) : \E f \in [1..n -> 1..n] :
       InitWith(Input(Reposted(c, f), SilentNet(c), SilentLlm, FALSE))
  \/ InitThemed

\* groups of up to MaxPosts prioritized replies with ancestors outside the batch
InitContinues ==
  \/ \E n \in 1..MaxPosts : \E b \in ContinueBatches(n) : \E sh \in PassShapes :
       InitWith(Input(b, Net(b, sh, AllPostUris(b) \cup {ExtRoot, ExtParent}),
                      SilentLlm, FALSE))
  \/ InitThemed

\* the three context passes over threads of any author
InitPasses ==
  \/ \E n \in 1..MaxPosts : \E b \in PassBatches(n) :
       \E sh \in PassShapes :
         \E vis \in {{}, AllPostUris(b) \cup {ExtRoot, ExtParent}} :
           InitWith(Input(b, Net(b, sh, vis), SilentLlm, FALSE))
  \/ InitThemed

(***************************************************************************)
(* generate_pdf, stage by stage                                            *)
(***************************************************************************)
\* main: validate_config exits with status 1 before the generator is made
Main ==
  /\ pc = "main"
  /\ pc' = IF ExitsEarly(config, use_themes) THEN "exit_1"
           ELSE IF config.cache THEN "load_cache" ELSE "login"
  /\ UNCHANGED <<limit, all_posts, cursor, responses, config, feed, posts, net, llm, use_themes, reply_context,
                 thread_continues, thread_replies, immediate_parent, threads,
                 themes, classifications, sections>>

\* BlueskyTimesGenerator.__init__: client.login(handle, app_password)
Login ==
  /\ pc = "login"
  /\ pc' = "extract_posts"
  /\ UNCHANGED <<limit, all_posts, cursor, responses, config, feed, posts, net, llm, use_themes, reply_context,
                 thread_continues, thread_replies, immediate_parent, threads,
                 themes, classifications, sections>>

\* threads = self.load_cache(): the threads an earlier fresh run over feed
\* saved, having got no context from the server
LoadCache ==
  /\ pc = "load_cache"
  /\ posts' = ExtractedPosts(feed)
  /\ threads' = organize_threads(posts')
  /\ reply_context' = [i \in 1..Len(posts') |-> NoContext]
  /\ thread_continues' = [i \in 1..Len(posts') |-> 0]
  /\ thread_replies' = [i \in 1..Len(posts') |-> <<>>]
  /\ immediate_parent' = [i \in 1..Len(posts') |-> NoUri]
  /\ pc' = "consolidate"
  /\ UNCHANGED <<limit, all_posts, cursor, responses, config, feed, net, llm, use_themes, themes, classifications,
                 sections>>

\* posts = [self.extract_post_data(f) for f in feed] and the filter of the
\* user's own posts; one entry that raises ends the run
ExtractPosts ==
  /\ pc = "extract_posts"
  /\ IF \E i \in 1..Len(feed) : ExtractRaises(feed[i])
     THEN /\ pc' = "raised"
          /\ UNCHANGED <<posts, reply_context, thread_continues, thread_replies,
                         immediate_parent>>
     ELSE /\ posts' = ExtractedPosts(feed)
          /\ reply_context' = [i \in 1..Len(posts') |-> NoContext]
          /\ thread_continues' = [i \in 1..Len(posts') |-> 0]
          /\ thread_replies' = [i \in 1..Len(posts') |-> <<>>]
          /\ immediate_parent' = [i \in 1..Len(posts') |-> NoUri]
          /\ pc' = "add_reply_context"
  /\ UNCHANGED <<limit, all_posts, cursor, responses, config, feed, net, llm, use_themes, threads, themes,
                 classifications, sections>>

AddReplyContextForFavorites ==
  /\ pc = "add_reply_context"
  /\ LET r == AddReplyContextResult IN
       /\ reply_context' = r.rc
       /\ thread_continues' = r.tc
       /\ pc' = IF r.raised THEN "raised" ELSE "organize_threads"
  /\ UNCHANGED <<limit, all_posts, cursor, responses, config, feed, posts, net, llm, use_themes, thread_replies, immediate_parent,
                 threads, themes, classifications, sections>>

OrganizeThreads ==
  /\ pc = "organize_threads"
  /\ threads' = organize_threads(posts)
  /\ pc' = "add_thread_context"
  /\ UNCHANGED <<limit, all_posts, cursor, responses, config, feed, posts, net, llm, use_themes, reply_context, thread_continues,
                 thread_replies, immediate_parent, themes, classifications,
                 sections>>

AddThreadContextForFavorites ==
  /\ pc = "add_thread_context"
  /\ reply_context' = AddThreadContextFrom(threads, 1, posts, net, reply_context)
  /\ pc' = "add_basic_context"
  /\ UNCHANGED <<limit, all_posts, cursor, responses, config, feed, posts, net, llm, use_themes, thread_continues, thread_replies,
                 immediate_parent, threads, themes, classifications, sections>>

AddBasicReplyContext ==
  /\ pc = "add_basic_context"
  /\ reply_context' = BasicReplyContext(threads, posts, net, reply_context)
  /\ pc' = "consolidate"
  /\ UNCHANGED <<limit, all_posts, cursor, responses, config, feed, posts, net, llm, use_themes, thread_continues, thread_replies,
                 immediate_parent, threads, themes, classifications, sections>>

ConsolidateThreadParticipations ==
  /\ pc = "consolidate"
  /\ LET r == consolidate_thread_participations(threads, posts, net,
                                                thread_replies, immediate_parent)
     IN /\ threads' = r.threads
        /\ thread_replies' = r.thread_replies
        /\ immediate_parent' = r.immediate_parent
        /\ pc' = IF r.raised THEN "raised"
                 ELSE IF use_themes THEN "identify_themes" ELSE "render"
  /\ UNCHANGED <<limit, all_posts, cursor, responses, config, feed, posts, net, llm, use_themes, reply_context, thread_continues,
                 themes, classifications, sections>>

IdentifyThemes ==
  /\ pc = "identify_themes"
  /\ themes' = identify_themes(llm)
  /\ pc' = "classify_posts"
  /\ UNCHANGED <<limit, all_posts, cursor, responses, config, feed, posts, net, llm, use_themes, reply_context, thread_continues,
                 thread_replies, immediate_parent, threads, classifications,
                 sections>>

ClassifyPosts ==
  /\ pc = "classify_posts"
  /\ classifications' = classify_posts(threads, themes, llm)
  /\ pc' = "organize_by_theme"
  /\ UNCHANGED <<limit, all_posts, cursor, responses, config, feed, posts, net, llm, use_themes, reply_context, thread_continues,
                 thread_replies, immediate_parent, threads, themes, sections>>

OrganizeByTheme ==
  /\ pc = "organize_by_theme"
  /\ sections' = organize_by_theme(posts, threads, themes, classifications)
  /\ pc' = "render"
  /\ UNCHANGED <<limit, all_posts, cursor, responses, config, feed, posts, net, llm, use_themes, reply_context, thread_continues,
                 thread_replies, immediate_parent, threads, themes,
                 classifications>>

\* generate_html_with_sections or generate_html, then write_pdf
Render ==
  /\ pc = "render"
  /\ pc' = "done"
  /\ UNCHANGED <<limit, all_posts, cursor, responses, config, feed, posts, net, llm, use_themes, reply_context, thread_continues,
                 thread_replies, immediate_parent, threads, themes,
                 classifications, sections>>

Next ==
  \/ Main
  \/ Login
  \/ LoadCache
  \/ ExtractPosts
  \/ AddReplyContextForFavorites
  \/ OrganizeThreads
  \/ AddThreadContextForFavorites
  \/ AddBasicReplyContext
  \/ ConsolidateThreadParticipations
  \/ IdentifyThemes
  \/ ClassifyPosts
  \/ OrganizeByTheme
  \/ Render

Spec == Init /\ [][Next]_vars
SpecAssemble == InitAssemble /\ [][Next]_vars
SpecHydrate == InitHydrate /\ [][Next]_vars
SpecThemes == InitThemes /\ [][Next]_vars
SpecExtract == InitExtract /\ [][Next]_vars
SpecCli == InitCli /\ [][Next]_vars
SpecPasses == InitPasses /\ [][Next]_vars
SpecContinues == InitContinues /\ [][Next]_vars
SpecReposts == InitReposts /\ [][Next]_vars

(***************************************************************************)
(* ArsonTimes (src/arson_times.py): extract_post_data, consolidate_threads *)
(***************************************************************************)
ARSON_HANDLE == "theophite.bsky.social"

\* a feed item: the post's uri and feed_item.reply.parent (uri and author)
ArsonFeedItem(u, parent_uri, parent_handle) ==
  [uri |-> u, parent_uri |-> parent_uri, parent_handle |-> parent_handle]

\* ArsonTimes.extract_post_data: a reply to the author's own post is a thread
\* continuation and keeps the parent's uri
ArsonExtractPostData(f) ==
  LET is_thread_continuation == f.parent_uri # NoUri /\ f.parent_handle = ARSON_HANDLE
  IN [uri |-> f.uri,
      is_thread_continuation |-> is_thread_continuation,
      reply_parent_uri |-> IF is_thread_continuation THEN f.parent_uri ELSE NoUri]

\* continuation_uris
ContinuationUris(ps) ==
  {ps[i].uri : i \in {j \in 1..Len(ps) :
                        ps[j].is_thread_continuation /\ ps[j].reply_parent_uri # NoUri}}

\* for other in posts: one pass in feed order, current_uri moving down the chain
RECURSIVE FollowContinuations(_, _, _, _)
FollowContinuations(ps, j, current_uri, thread_posts) ==
  IF j > Len(ps) THEN thread_posts
  ELSE IF ps[j].reply_parent_uri = current_uri /\ ps[j].is_thread_continuation
       THEN FollowContinuations(ps, j + 1, ps[j].uri, Append(thread_posts, j))
       ELSE FollowContinuations(ps, j + 1, current_uri, thread_posts)

\* the loop building consolidated; a returned post is the sequence of its own
\* position and the positions in its thread_continuation list
RECURSIVE ArsonConsolidateFrom(_, _, _)
ArsonConsolidateFrom(ps, k, consolidated) ==
  IF k > Len(ps) THEN consolidated
  ELSE IF ps[k].uri \in ContinuationUris(ps)
       THEN ArsonConsolidateFrom(ps, k + 1, consolidated)
       ELSE LET thread_posts == FollowContinuations(ps, 1, ps[k].uri, <<k>>)
            IN ArsonConsolidateFrom(ps, k + 1,
                 Append(consolidated,
                        [type |-> IF Len(thread_posts) > 1 THEN "thread" ELSE "single",
                         posts |-> thread_posts]))

consolidate_threads(ps) == ArsonConsolidateFrom(ps, 1, <<>>)

\* author feeds of n posts: a post replies to nothing, to another post of
\* the feed or to a post outside it, written by the author or by someone else
ArsonFeeds(n) ==
  {[i \in 1..n |-> ArsonFeedItem(UriName[i], f[i][1], f[i][2])] :
     f \in [1..n -> ({<<NoUri, Other>>}
                     \cup ((BatchUris(n) \cup {ExtParent}) \X {ARSON_HANDLE, Other}))]}

InitArson ==
  /\ \E n \in 1..MaxPosts : \E fd \in ArsonFeeds(n) :
       /\ feed = fd
       /\ \A i \in 1..n : fd[i].parent_uri # fd[i].uri
  /\ pc = "arson_extract_posts"
  /\ limit = 0
  /\ all_posts = <<>>
  /\ cursor = NoCursor
  /\ responses = <<>>
  /\ config = FreshConfig
  /\ net = SilentNet(<<>>)
  /\ llm = SilentLlm
  /\ use_themes = FALSE
  /\ posts = <<>>
  /\ reply_context = <<>>
  /\ thread_continues = <<>>
  /\ thread_replies = <<>>
  /\ immediate_parent = <<>>
  /\ threads = <<>>
  /\ themes = <<>>
  /\ classifications = <<>>
  /\ sections = <<>>

\* ArsonTimes.generate_pdf: posts = [self.extract_post_data(f) for f in feed]
ArsonExtractPosts ==
  /\ pc = "arson_extract_posts"
  /\ posts' = [i \in 1..Len(feed) |-> ArsonExtractPostData(feed[i])]
  /\ pc' = "arson_consolidate"
  /\ UNCHANGED <<limit, all_posts, cursor, responses, config, feed, net, llm, use_themes, reply_context, thread_continues,
                 thread_replies, immediate_parent, threads, themes, classifications,
                 sections>>

\* posts = self.consolidate_threads(posts)
ArsonConsolidateThreads ==
  /\ pc = "arson_consolidate"
  /\ threads' = consolidate_threads(posts)
  /\ pc' = "arson_render"
  /\ UNCHANGED <<limit, all_posts, cursor, responses, config, feed, posts, net, llm, use_themes, reply_context,
                 thread_continues, thread_replies, immediate_parent, themes,
                 classifications, sections>>

\* download_images, generate_html, write_pdf
ArsonRender ==
  /\ pc = "arson_render"
  /\ pc' = "arson_done"
  /\ UNCHANGED <<limit, all_posts, cursor, responses, config, feed, posts, net, llm, use_themes, reply_context,
                 thread_continues, thread_replies, immediate_parent, threads, themes,
                 classifications, sections>>

NextArson ==
  \/ ArsonExtractPosts
  \/ ArsonConsolidateThreads
  \/ ArsonRender

SpecArson == InitArson /\ [][NextArson]_vars

(***************************************************************************)
(* fetch_timeline (src/bluesky_times/generator.py): the paging loop        *)
(***************************************************************************)
InitTimeline ==
  /\ limit \in 0..MaxLimit
  /\ all_posts = <<>>
  /\ cursor = NoCursor
  /\ responses = <<>>
  /\ pc = "fetch_timeline"
  /\ config = FreshConfig
  /\ feed = <<>>
  /\ net = SilentNet(<<>>)
  /\ llm = SilentLlm
  /\ use_themes = FALSE
  /\ posts = <<>>
  /\ reply_context = <<>>
  /\ thread_continues = <<>>
  /\ thread_replies = <<>>
  /\ immediate_parent = <<>>
  /\ threads = <<>>
  /\ themes = <<>>
  /\ classifications = <<>>
  /\ sections = <<>>

\* one pass of the loop body: request a page, extend all_posts, break or take
\* the page's cursor
GetTimeline ==
  /\ pc = "fetch_timeline"
  /\ Len(all_posts) < limit
  /\ Len(responses) < MaxRequests
  /\ LET batch_size == BatchSize(limit, all_posts)
     IN \E timeline \in TimelinePages(Len(responses) + 1, batch_size) :
          /\ responses' = Append(responses, timeline)
          /\ all_posts' = all_posts \o timeline.feed
          /\ IF StopsPaging(timeline, batch_size)
             THEN pc' = "fetch_return" /\ cursor' = cursor
             ELSE pc' = "fetch_timeline" /\ cursor' = timeline.cursor
  /\ UNCHANGED <<limit, config, feed, posts, net, llm, use_themes, reply_context,
                 thread_continues, thread_replies, immediate_parent, threads, themes,
                 classifications, sections>>

\* while len(all_posts) < limit: the test fails
LeaveLoop ==
  /\ pc = "fetch_timeline"
  /\ ~(Len(all_posts) < limit)
  /\ pc' = "fetch_return"
  /\ UNCHANGED <<limit, all_posts, cursor, responses, config, feed, posts, net, llm,
                 use_themes, reply_context, thread_continues, thread_replies,
                 immediate_parent, threads, themes, classifications, sections>>

\* return all_posts[:limit]; the caller binds the result to feed
ReturnTimeline ==
  /\ pc = "fetch_return"
  /\ feed' = SliceTo(all_posts, limit)
  /\ pc' = "timeline_done"
  /\ UNCHANGED <<limit, all_posts, cursor, responses, config, posts, net, llm,
                 use_themes, reply_context, thread_continues, thread_replies,
                 immediate_parent, threads, themes, classifications, sections>>

NextTimeline ==
  \/ GetTimeline
  \/ LeaveLoop
  \/ ReturnTimeline

\* the loop runs in one thread that nothing suspends: a step that can be
\* taken is taken
SpecTimeline == InitTimeline /\ [][NextTimeline]_vars /\ WF_vars(NextTimeline)

(***************************************************************************)
(* Properties                                                              *)
(***************************************************************************)
\* organize_threads has run and its output is still in threads
Assembled == pc \in {"add_thread_context", "add_basic_context", "consolidate"}

MemberUris(ths) == {ThreadUris(posts, ths[t]) : t \in 1..Len(ths)}

\* C1: after organize_threads, whenever a post Q of the batch names the uri of
\* a post P of the batch as its reply_root, P and Q are members of the same
\* output thread, whatever the order of the batch.
C1_RootAndReplyShareThread ==
  Assembled =>
    \A i, j \in 1..Len(posts) :
      posts[j].reply_root = posts[i].uri =>
        \E m \in MemberUris(threads) : posts[i].uri \in m /\ posts[j].uri \in m

BatchOrders(n) == {f \in [1..n -> 1..n] : \A a, b \in 1..n : f[a] = f[b] => a = b}

Permuted(ps, f) == [i \in 1..Len(ps) |-> ps[f[i]]]

\* the sets of uris that organize_threads groups together
Memberships(ps) ==
  LET ths == organize_threads(ps) IN {ThreadUris(ps, ths[t]) : t \in 1..Len(ths)}

\* C3: every permutation of the batch gives the same set of thread memberships.
C3_MembershipOrderIndependent ==
  Assembled =>
    \A f \in BatchOrders(Len(posts)) :
      Memberships(Permuted(posts, f)) = MemberUris(threads)

\* members in nondecreasing created_at order (a missing created_at first),
\* equal timestamps in batch order
Chronological(thread) ==
  \A a, b \in 1..Len(thread.posts) :
    a < b =>
      /\ posts[thread.posts[a]].created_at <= posts[thread.posts[b]].created_at
      /\ posts[thread.posts[a]].created_at = posts[thread.posts[b]].created_at
           => thread.posts[a] < thread.posts[b]

\* the batch [A root, B reply_root=A, C reply_root=A], created in that order
RootThenTwoReplies ==
  /\ Len(posts) = 3
  /\ posts[1].reply_root = NoUri
  /\ posts[2].reply_root = posts[1].uri
  /\ posts[3].reply_root = posts[1].uri
  /\ posts[1].created_at <= posts[2].created_at
  /\ posts[2].created_at <= posts[3].created_at

\* C4: every thread of organize_threads is in nondecreasing created_at order,
\* missing timestamps first and ties in batch order, and the batch
\* [A root, B reply_root=A, C reply_root=A] gives the one thread [A, B, C].
C4_ThreadsChronological ==
  Assembled =>
    /\ \A t \in 1..Len(threads) : Chronological(threads[t])
    /\ RootThenTwoReplies => threads = <<[type |-> "thread", posts |-> <<1, 2, 3>>]>>

\* consolidate_thread_participations has returned and its output is in threads
Consolidated ==
  pc \in {"identify_themes", "classify_posts", "organize_by_theme", "render", "done"}

RECURSIVE SumLen(_)
SumLen(ss) == IF ss = <<>> THEN 0 ELSE Len(Head(ss)) + SumLen(Tail(ss))

RECURSIVE Flatten(_)
Flatten(ss) == IF ss = <<>> THEN <<>> ELSE Head(ss) \o Flatten(Tail(ss))

\* the posts in the threads plus the posts in their members' thread_replies
PostCount(ths, tr) ==
  LET members == Flatten([t \in 1..Len(ths) |-> ths[t].posts])
  IN Len(members) + SumLen([k \in 1..Len(members) |-> tr[members[k]]])

\* the posts relocated into the thread_replies of a member of ths
Relocated(ths, tr) == UNION {Range(tr[i]) : i \in ThreadMembers(ths)}

\* C2: consolidate_thread_participations preserves the number of posts (posts
\* left in the output threads plus posts in thread_replies equal the posts of
\* the input threads), and it removes a thread only if every post of it was
\* relocated to a thread_replies list.
C2_ConsolidationKeepsEveryPost ==
  [][pc = "consolidate" =>
       /\ PostCount(threads', thread_replies') = PostCount(threads, thread_replies)
       /\ \A t \in 1..Len(threads) :
            (\A u \in 1..Len(threads') : threads'[u] # threads[t])
              => Range(threads[t].posts) \subseteq Relocated(threads', thread_replies')]_vars

\* C5: consolidate_thread_participations applied to its own output returns the
\* same threads in the same order with the same thread_replies and posts.
C5_ConsolidationIdempotent ==
  Consolidated =>
    LET again == consolidate_thread_participations(threads, posts, net,
                                                   thread_replies, immediate_parent)
    IN /\ ~again.raised
       /\ again.threads = threads
       /\ again.thread_replies = thread_replies
       /\ again.immediate_parent = immediate_parent

\* a run in which consolidation moved a reply into another thread
C5_Witness ==
  /\ Consolidated
  /\ \E i \in ThreadMembers(threads) : thread_replies[i] # <<>>

\* the prioritized replies of the batch into root
RepliesInto(root) ==
  {i \in 1..Len(posts) : IsFavoriteReply(posts[i]) /\ posts[i].reply_root = root}

ExternalRoots ==
  {posts[i].reply_root : i \in {j \in 1..Len(posts) : IsFavoriteReply(posts[j])}}
  \ AllPostUris(posts)

\* C8: for every root outside the batch with two or more prioritized replies,
\* after assembly and consolidation the earliest reply is a member of exactly
\* one output thread, every other reply is in that member's thread_replies, and
\* no other output thread contains any of the replies.
C8_OneCanonicalThread ==
  Consolidated =>
    \A root \in ExternalRoots :
      LET G == RepliesInto(root) IN
      Cardinality(G) >= 2 =>
        \E e \in G :
          /\ \A g \in G : posts[e].created_at <= posts[g].created_at
          /\ \E t \in 1..Len(threads) :
               /\ e \in Range(threads[t].posts)
               /\ \A u \in 1..Len(threads) :
                    u # t => Range(threads[u].posts) \cap G = {}
               /\ Range(threads[t].posts) \cap G = {e}
          /\ Range(thread_replies[e]) = G \ {e}

\* all three context passes have run
ContextPassesDone == pc = "consolidate" \/ Consolidated

\* C6: after the context passes no reply_context (full, summary or continued)
\* lists an ancestor whose uri is the uri of a post of the batch; only gap
\* markers and posts outside the batch appear.
C6_NoBatchPostInContext ==
  ContextPassesDone =>
    \A i \in 1..Len(posts) :
      \A k \in 1..Len(reply_context[i].posts) :
        \/ reply_context[i].posts[k].is_gap
        \/ reply_context[i].posts[k].uri \notin AllPostUris(posts)

\* the chain add_reply_context_for_favorites has to attach for the group of root
ChainToAttach(root) ==
  FilterParents(FetchThreadContext(net, net.ctx[ReplyGroup(posts, root)[1]], root),
                AllPostUris(posts))

FirstReply(G) ==
  CHOOSE e \in G :
    \A g \in G : \/ posts[e].created_at < posts[g].created_at
                 \/ posts[e].created_at = posts[g].created_at /\ e <= g

SharedRoots == {r \in Range(GroupRoots(posts, 1)) : Cardinality(RepliesInto(r)) >= 2}

\* C9 as stated: when two or more prioritized posts share a reply root, the
\* chronologically first has a full or summary context and the number of
\* additional replies, and every later one has only a continued context of at
\* most 2 ancestors.
C9_FirstFullLaterContinued ==
  ContextPassesDone =>
    \A root \in SharedRoots :
      LET G == RepliesInto(root) IN
      /\ reply_context[FirstReply(G)].type \in {"full", "summary"}
      /\ thread_continues[FirstReply(G)] = Cardinality(G) - 1
      /\ \A g \in G \ {FirstReply(G)} :
           /\ reply_context[g].type = "continued"
           /\ Len(reply_context[g].posts) <= 2

\* add_reply_context_for_favorites has returned or raised
FavoritePassOver == pc = "organize_threads" \/ (pc = "raised" /\ threads = <<>>)

\* C9 as amended: when two or more prioritized posts share a reply root, only
\* the chronologically first can receive a full or summary context from
\* add_reply_context_for_favorites, and when it does it carries the number of
\* additional replies; every later one receives from that pass a continued
\* context of at most 2 ancestors or nothing.
C9_OnlyFirstFullLaterContinued ==
  FavoritePassOver =>
    \A root \in SharedRoots :
      LET G == RepliesInto(root) IN
      /\ reply_context[FirstReply(G)].type \in {"none", "full", "summary"}
      /\ thread_continues[FirstReply(G)] =
           IF reply_context[FirstReply(G)].type = "none" THEN 0 ELSE Cardinality(G) - 1
      /\ \A g \in G \ {FirstReply(G)} :
           /\ reply_context[g].type \in {"none", "continued"}
           /\ Len(reply_context[g].posts) <= 2
           /\ thread_continues[g] = 0

\* a shared root whose first reply got the context and a later one a
\* continued context cut to 2 of a longer chain
C9_Witness ==
  /\ pc = "organize_threads"
  /\ \E root \in SharedRoots :
       LET G == RepliesInto(root) IN
       /\ reply_context[FirstReply(G)].type \in {"full", "summary"}
       /\ \E g \in G \ {FirstReply(G)} :
            /\ reply_context[g].type = "continued"
            /\ Len(FetchThreadContext(net, net.ctx[g], root)) > 2

\* C10: organize_by_theme emits no section with an empty thread list; a theme
\* without threads is omitted and the sections "From Voices I Follow" and
\* "Also Today" appear only with at least one thread.
C10_NoEmptySection ==
  \A k \in 1..Len(sections) : Len(sections[k].threads) >= 1

\* sections were emitted while some theme had no thread and was omitted
C10_Witness ==
  /\ pc = "render"
  /\ sections # <<>>
  /\ \E k \in 1..Len(themes) :
       /\ ThemeIndices(classifications, themes[k], Len(threads)) = <<>>
       /\ \A m \in 1..Len(sections) : sections[m].title # themes[k]

\* organize_by_theme has run
Organized == pc \in {"render", "done"} /\ use_themes

\* the earliest created_at the posts of a thread carry
EarliestCreatedAt(thread) ==
  LET times == {posts[i].created_at : i \in Range(thread.posts)} \ {NoTime}
  IN IF times = {} THEN NoTime
     ELSE CHOOSE t \in times : \A u \in times : t <= u

\* C11: in every section emitted by organize_by_theme the threads holding a
\* post by a prioritized author precede the threads holding none, each of the
\* two groups is in nondecreasing order of the earliest created_at of its
\* threads, and favorite_count is the size of the first group.
C11_FavoritesFirstThenChronological ==
  Organized =>
    \A m \in 1..Len(sections) :
      LET ths == sections[m].threads IN
        /\ \A j, k \in 1..Len(ths) :
             j < k =>
               /\ HasFavorite(posts, ths[k]) => HasFavorite(posts, ths[j])
               /\ HasFavorite(posts, ths[j]) = HasFavorite(posts, ths[k])
                    => EarliestCreatedAt(ths[j]) <= EarliestCreatedAt(ths[k])
        /\ sections[m].favorite_count
             = Cardinality({k \in 1..Len(ths) : HasFavorite(posts, ths[k])})

\* a section where a later thread of the list was moved ahead: a prioritized
\* thread ahead of an earlier other one, or an earlier timestamp first
C11_Witness ==
  /\ Organized
  /\ \E m \in 1..Len(sections) :
       LET ths == sections[m].threads IN
         /\ Len(ths) >= 2
         /\ ths[1].posts[1] > ths[2].posts[1]
         /\ \/ HasFavorite(posts, ths[1]) /\ ~HasFavorite(posts, ths[2])
            \/ /\ HasFavorite(posts, ths[1]) = HasFavorite(posts, ths[2])
               /\ EarliestCreatedAt(ths[1]) < EarliestCreatedAt(ths[2])

\* the run ended in an exception raised by add_reply_context_for_favorites
FavoritePassRaised == pc = "raised" /\ posts # <<>> /\ threads = <<>>

\* every context fetch for post i fails
FetchesFail(i) ==
  ~net.ctx[i].ok /\ posts[i].reply_parent \notin net.visible

\* C12: a failed context fetch never aborts the run: a post whose context
\* fetches fail is left without reply_context, the hydration passes raise
\* nothing on account of it and the other posts are still hydrated.
C12_FetchFailureNotFatal ==
  /\ FavoritePassRaised => \E i \in 1..Len(posts) : net.ctx[i].ok
  /\ ContextPassesDone =>
       \A i \in 1..Len(posts) : FetchesFail(i) => reply_context[i] = NoContext

\* the fetch for the first post failed, the passes went on and gave a later
\* post its context
C12_Witness ==
  /\ pc = "consolidate"
  /\ Len(posts) >= 2
  /\ posts[1].reply_parent # NoUri
  /\ ~net.ctx[1].ok
  /\ reply_context[1] = NoContext
  /\ \E i \in 2..Len(posts) : net.ctx[i].ok /\ reply_context[i] # NoContext

\* the entries of the feed whose normalization raises nothing
RECURSIVE WellFormed(_)
WellFormed(fd) ==
  IF fd = <<>> THEN <<>>
  ELSE (IF ExtractRaises(Head(fd)) THEN <<>> ELSE <<Head(fd)>>) \o WellFormed(Tail(fd))

\* C13: when the batch of raw feed entries is normalized, an entry whose
\* normalization fails is skipped and all other entries are normalized and
\* passed on; one malformed entry never aborts the run.
C13_MalformedEntrySkipped ==
  [][pc = "extract_posts" =>
       pc' = "add_reply_context" /\ posts' = ExtractedPosts(WellFormed(feed))]_vars

\* generate_pdf got past the normalization of the feed
Normalized ==
  pc \in {"add_reply_context", "organize_threads", "add_thread_context",
          "add_basic_context", "consolidate", "identify_themes", "classify_posts",
          "organize_by_theme", "render", "done"}
  \/ (pc = "raised" /\ posts # <<>>)

\* the run ended in an exception raised by extract_post_data
ExtractionRaised == pc = "raised" /\ posts = <<>>

\* entry i quotes a record whose author is blocked
QuotesBlocked(i) ==
  feed[i].embed.py_type \in {"record", "recordWithMedia"}
  /\ feed[i].embed.record = "view_blocked"

\* C15: normalizing a post whose quoted record is unavailable because its
\* author is blocked raises no error and yields a post with quote_post absent
\* and its other fields populated.
C15_BlockedQuoteAbsent ==
  /\ ExtractionRaised => \E i \in 1..Len(feed) : feed[i].author_handle = NoAuthor
  /\ Normalized =>
       \A i \in 1..Len(feed) :
         QuotesBlocked(i) /\ feed[i].author_handle # UserHandle =>
           \E j \in 1..Len(posts) :
             /\ posts[j].uri = feed[i].uri
             /\ posts[j].quote_post = "absent"
             /\ posts[j].author_handle = feed[i].author_handle
             /\ posts[j].created_at = feed[i].created_at
             /\ posts[j].images = extract_images(feed[i].embed)

\* a post with media that quotes a blocked author came out of the normalizer
C15_Witness ==
  /\ pc = "add_reply_context"
  /\ \E i \in 1..Len(feed) :
       /\ QuotesBlocked(i)
       /\ \E j \in 1..Len(posts) :
            /\ posts[j].uri = feed[i].uri
            /\ posts[j].quote_post = "absent"
            /\ posts[j].images # <<>>

\* C16: the images list of a normalized post holds no two entries with the
\* same resolved url.
C16_ImagesDeduplicated ==
  Normalized =>
    \A i \in 1..Len(posts) :
      \A j, k \in 1..Len(posts[i].images) :
        j # k => posts[i].images[j] # posts[i].images[k]

\* every thread carries the catch-all label
AllMisc(cls, n) == cls = [k \in 1..n |-> <<k - 1, "misc">>]

RequiredSecrets(cfg, ut) ==
  (IF cfg.cache THEN {} ELSE {"BLUESKY_APP_PASSWORD"})
  \cup (IF ut THEN {"OPENROUTER_API_KEY"} ELSE {})

RequiredMissing == RequiredSecrets(config, use_themes) \cap MissingSecrets(config)

\* C17: with a secret missing that the run mode requires, the run is still in
\* main or has exited with status 1, and the exit left nothing logged in,
\* loaded or processed
C17_MissingSecretExitsFirst ==
  /\ RequiredMissing # {} => pc \in {"main", "exit_1"}
  /\ pc = "exit_1" => posts = <<>> /\ threads = <<>> /\ sections = <<>>

C17_Witness == pc = "exit_1" /\ RequiredMissing # {} /\ config.cache /\ use_themes

\* C18: after organize_threads every post uri of the batch is a member of some
\* output thread: a post not pulled into a root's thread is emitted as a
\* thread of type "single" holding just that post
C18_NoPostDroppedByAssembly ==
  Assembled =>
    \A i \in 1..Len(posts) :
      \E t \in 1..Len(threads) :
        /\ posts[i].uri \in ThreadUris(posts, threads[t])
        /\ Len(threads[t].posts) = 1 => threads[t].type = "single"

\* the statements of generate_pdf that are stages of the pipeline
StagePcs ==
  {"extract_posts", "add_reply_context", "organize_threads", "add_thread_context",
   "add_basic_context", "consolidate", "identify_themes", "classify_posts",
   "organize_by_theme", "render"}

\* normalize 1, assemble 2, hydrate 3, consolidate 4, organize sections 5, render 6
ClaimedStage(p) ==
  CASE p = "extract_posts" -> 1
    [] p = "organize_threads" -> 2
    [] p \in {"add_reply_context", "add_thread_context", "add_basic_context"} -> 3
    [] p = "consolidate" -> 4
    [] p \in {"identify_themes", "classify_posts", "organize_by_theme"} -> 5
    [] OTHER -> 6

\* the order of the statements in generate_pdf
CodeStage(p) ==
  CASE p = "extract_posts" -> 1
    [] p = "add_reply_context" -> 2
    [] p = "organize_threads" -> 3
    [] p = "add_thread_context" -> 4
    [] p = "add_basic_context" -> 5
    [] p = "consolidate" -> 6
    [] p = "identify_themes" -> 7
    [] p = "classify_posts" -> 8
    [] p = "organize_by_theme" -> 9
    [] OTHER -> 10

\* every feed entry not written by the user is a normalized post, in feed order
BatchNormalized ==
  LET kept == FilterOwnPosts(feed)
  IN /\ Len(posts) = Len(kept)
     /\ \A i \in 1..Len(posts) : posts[i].uri = kept[i].uri

\* C19 as stated: in a fresh run the stages run in the order normalize,
\* assemble, hydrate, consolidate, organize sections, render, and every
\* context-hydration step works on threads already assembled
C19_StagesInClaimedOrder ==
  [][(~config.cache /\ pc \in StagePcs) =>
       /\ pc' \in StagePcs => ClaimedStage(pc) <= ClaimedStage(pc')
       /\ ClaimedStage(pc) = 3 => threads = organize_threads(posts)]_vars

\* C19 as amended: in a fresh run the steps run in the order normalize, reply
\* context of prioritized replies over the flat list of posts, assemble,
\* thread context and basic reply context over the assembled threads,
\* consolidate, organize sections (with themes), render; each step starts with
\* the whole batch normalized and the previous step finished
C19_StagesInCodeOrder ==
  [][(~config.cache /\ pc \in StagePcs) =>
       /\ pc' \in StagePcs => CodeStage(pc) < CodeStage(pc')
       /\ pc # "extract_posts" => BatchNormalized
       /\ pc \in {"add_reply_context", "organize_threads"} => threads = <<>>
       /\ pc \in {"add_thread_context", "add_basic_context"}
            => threads = organize_threads(posts)
       /\ CodeStage(pc) <= 6 => sections = <<>> /\ themes = <<>>]_vars

C19_Witness ==
  /\ pc = "done" /\ ~config.cache /\ use_themes
  /\ \E i \in 1..Len(posts) : reply_context[i] # NoContext
  /\ threads # <<>> /\ sections # <<>>

\* some post of the batch has no created_at
MissingTimestamp == \E i \in 1..Len(posts) : posts[i].created_at = NoTime

\* C20: with any mix of present and missing created_at, sorting the reply
\* groups of add_reply_context_for_favorites and the contributing threads of
\* consolidate_thread_participations completes without error, a missing
\* created_at counting as the earliest
C20_MissingTimestampSortsWithoutError ==
  (MissingTimestamp /\ posts # <<>>) => pc # "raised"

\* the member posts of thread t that carry a reply_context
WithContext(rc, t) == {i \in Range(threads[t].posts) : rc[i].type # "none"}

\* C21 as stated: after all context passes at most one member post of each
\* thread carries a reply_context
C21_OneContextPerThread ==
  ContextPassesDone => \A t \in 1..Len(threads) : Cardinality(WithContext(reply_context, t)) <= 1

\* C21 as amended: add_thread_context_for_favorites sets the reply_context of
\* at most one member post of each thread, and add_basic_reply_context leaves
\* every member post whose parent can be fetched with a reply_context, so
\* that a thread can hold several posts that carry one
C21_ContextPerReply ==
  [][/\ pc = "add_thread_context" =>
          \A t \in 1..Len(threads) :
            Cardinality({i \in Range(threads[t].posts) :
                           reply_context'[i] # reply_context[i]}) <= 1
     /\ pc = "add_basic_context" =>
          \A i \in ThreadMembers(threads) :
            (posts[i].reply_parent # NoUri /\ posts[i].reply_parent \in net.visible)
              => reply_context'[i].type # "none"]_vars

C21_Witness ==
  /\ pc = "consolidate"
  /\ \E t \in 1..Len(threads) : Cardinality(WithContext(reply_context, t)) >= 2

\* the answer of fetch_thread_context for post i of the batch
ContextOf(i) == FetchThreadContext(net, net.ctx[i], posts[i].reply_root)

\* the ancestors the server resolved for post i, oldest first
ResolvedOldestFirst(i) ==
  [k \in 1..Len(net.ctx[i].walk) |-> Ancestor(net.ctx[i].walk[k])]

\* the walk for post i broke before its known root, and the root is fetched
RootSpliced(i) ==
  /\ net.ctx[i].ok /\ net.ctx[i].broken
  /\ posts[i].reply_root # NoUri
  /\ posts[i].reply_root \notin Range(net.ctx[i].walk)
  /\ posts[i].reply_root \in net.visible

GapPositions(r) == {k \in 1..Len(r) : r[k].is_gap}

C23_ThreadPassesKeepThreads ==
  [][(pc \in {"add_thread_context", "add_basic_context"}) =>
       /\ threads' = threads /\ posts' = posts
       /\ thread_continues' = thread_continues /\ thread_replies' = thread_replies
       /\ DOMAIN reply_context' = DOMAIN reply_context
       /\ \A i \in DOMAIN reply_context :
            (reply_context'[i] # reply_context[i]) =>
              (i \in ThreadMembers(threads) /\ reply_context'[i].type # "none")]_vars

\* both passes have set a reply_context in a thread of three posts: the thread
\* pass the parent and one ancestor of a prioritized reply, the basic pass
\* the parent of the other member
C23_Witness ==
  /\ pc = "consolidate"
  /\ \E t \in 1..Len(threads) :
       /\ threads[t].type = "thread" /\ Len(threads[t].posts) = 3
       /\ \E i, j \in Range(threads[t].posts) :
            /\ ~IsFavorite(posts[i])
            /\ reply_context[i] = FullContext(<<Ancestor(posts[i].reply_parent)>>)
            /\ IsFavorite(posts[j]) /\ posts[j].reply_parent = ExtParent
            /\ reply_context[j] = FullContext(<<Ancestor(AnonName[1]), Ancestor(ExtParent)>>)

\* thread holds no post of a prioritized author that carries a reply_root
NoFavoriteReply(thread) == \A i \in Range(thread.posts) : ~IsFavoriteReply(posts[i])

\* the threads of ths that ths2 still holds, in the order of ths
Survivors(ths, ths2) ==
  SelectIn(ths, {ths[t] : t \in {u \in 1..Len(ths) : ths[u] \in Range(ths2)}})

\* C24: consolidate_thread_participations neither removes nor alters a thread
\* that holds no prioritized-author post carrying a reply_root, and the
\* threads that survive keep their relative order
C24_OtherThreadsUntouched ==
  [][pc = "consolidate" =>
       /\ \A t \in 1..Len(threads) :
            NoFavoriteReply(threads[t]) =>
              /\ threads[t] \in Range(threads')
              /\ \A i \in Range(threads[t].posts) :
                   /\ thread_replies'[i] = thread_replies[i]
                   /\ immediate_parent'[i] = immediate_parent[i]
                   /\ reply_context'[i] = reply_context[i]
       /\ posts' = posts
       /\ threads' = Survivors(threads, threads')]_vars

\* a thread was consolidated away and a thread without prioritized reply is
\* still there, with a thread after it
C24_Witness ==
  /\ Consolidated
  /\ Len(threads) = 2 /\ Len(organize_threads(posts)) = 3
  /\ NoFavoriteReply(threads[1])
  /\ \E i \in 1..Len(posts) : thread_replies[i] # <<>>

\* the places <<section, position>> where thread t of the consolidated list is shown
Shown(t) ==
  {km \in (1..Len(sections)) \X (1..Len(threads)) :
     /\ km[2] <= Len(sections[km[1]].threads)
     /\ sections[km[1]].threads[km[2]] = threads[t]}

\* C25: for every theme list identify_themes returns, its fallback list
\* included, and the classification of classify_posts, organize_by_theme
\* places every thread in exactly one section
C25_EveryThreadInOneSection ==
  Organized => \A t \in 1..Len(threads) : Cardinality(Shown(t)) = 1

\* the places <<thread, position>> of the member posts
MemberPlaces ==
  {tk \in (1..Len(threads)) \X (1..Len(posts)) : tk[2] <= Len(threads[tk[1]].posts)}

UriAt(tk) == posts[threads[tk[1]].posts[tk[2]]].uri

\* C26: in the output of organize_threads no post uri is a member of two
\* threads or twice a member of one thread, also when the batch holds several
\* entries with the same uri
C26_NoUriTwiceInThreads ==
  Assembled => \A p, q \in MemberPlaces : UriAt(p) = UriAt(q) => p = q

\* a batch with a repeated reply was assembled into a thread
C26_Witness ==
  /\ Assembled
  /\ \E i, j \in 1..Len(posts) :
       i # j /\ posts[i].uri = posts[j].uri /\ posts[i].reply_root # NoUri
  /\ \E t \in 1..Len(threads) : threads[t].type = "thread" /\ Len(threads[t].posts) >= 2

\* C27: after hydration, assembly and consolidation a post with
\* thread_continues = n is a member of an output thread and carries exactly n
\* posts in its thread_replies
C27_ContinuesMatchesThreadReplies ==
  Consolidated =>
    \A i \in 1..Len(posts) :
      thread_continues[i] > 0 =>
        /\ i \in ThreadMembers(threads)
        /\ Len(thread_replies[i]) = thread_continues[i]

\* C28: a reply_context that add_reply_context_for_favorites has set is
\* neither replaced nor removed by add_thread_context_for_favorites,
\* add_basic_reply_context or consolidate_thread_participations
C28_FavoriteContextKept ==
  [][(pc \in {"add_thread_context", "add_basic_context", "consolidate"}
      /\ ~config.cache) =>
       \A i \in 1..Len(posts) :
         (reply_context[i].type # "none" /\ IsFavoriteReply(posts[i]))
           => reply_context'[i] = reply_context[i]]_vars

\* the returned posts and thread_continuation lists that hold post i
ArsonPlaces(i) ==
  {tk \in (1..Len(threads)) \X (1..Len(posts)) :
     tk[2] <= Len(threads[tk[1]].posts) /\ threads[tk[1]].posts[tk[2]] = i}

\* C29: ArsonTimes.consolidate_threads loses no post: in any feed order and
\* for any length of a self-reply chain, every input post is an element of
\* the returned list or of exactly one returned post's thread_continuation
C29_ArsonLosesNoPost ==
  pc \in {"arson_render", "arson_done"} =>
    \A i \in 1..Len(posts) : Cardinality(ArsonPlaces(i)) = 1

\* the entries of the delivered pages, in the order of delivery
Delivered == Flatten([r \in 1..Len(responses) |-> responses[r].feed])

\* the answer to the last request ends the paging
LastPageStops ==
  LET last == responses[Len(responses)]
  IN \/ last.cursor \in {NoCursor, EmptyCursor}
     \/ Len(last.feed) < last.requested

\* C30: fetch_timeline(limit) terminates for every sequence of page
\* responses; it returns at most limit entries, in the order the pages
\* delivered them; and it requests no page after one that has no cursor or
\* is shorter than requested
C30_FetchTimelineTerminates ==
  /\ <>(pc = "timeline_done")
  /\ [](pc = "timeline_done" =>
          /\ Len(feed) <= limit
          /\ feed = SubSeq(Delivered, 1, Len(feed))
          /\ (Len(feed) < Len(Delivered) => Len(feed) = limit))
  /\ [][(responses' # responses) => (responses = <<>> \/ ~LastPageStops)]_vars

\* two pages were requested: the first full with a cursor, the second short
\* with a cursor, and the call returned fewer entries than the limit
C30_Witness ==
  /\ pc = "timeline_done"
  /\ Len(responses) = 2
  /\ responses[1].cursor = NextCursor
  /\ Len(responses[1].feed) = responses[1].requested
  /\ responses[2].cursor = NextCursor
  /\ Len(responses[2].feed) < responses[2].requested
  /\ feed = Delivered
  /\ Len(feed) < limit

====
